---- MODULE Spec2Model ----
(***************************************************************************)
(* Model of the questionnaire bot of src/main.py: the question graph that  *)
(* load_questions builds from the rows of questions_succ.csv, the table    *)
(* user_sessions of UserSession objects, and one action per update         *)
(* handler (start, handle_branch, handle_answer, handle_back,              *)
(* handle_restart, skip_subscription) with the helpers they call           *)
(* (show_question, ask_for_subscription, show_final_message,               *)
(* clean_session).                                                         *)
(*                                                                         *)
(* Text is a sequence of one-character strings, so that strip(), lower(),  *)
(* replace(), find() and int() are computed and not assumed.  A Python     *)
(* dict is a sequence of <<key, value>> pairs in insertion order.          *)
(*                                                                         *)
(* The Telegram calls (reply_text, edit_message_text, reply_photo) are the *)
(* transport: they are taken to deliver the message, and what a handler    *)
(* sent last to a user is recorded in view[u].  Buttons of older messages  *)
(* stay on the user's screen, so every update can arrive in every state.   *)
(***************************************************************************)
EXTENDS Integers, Sequences, FiniteSets, TLC

----------------------------------------------------------------------------
(* Bounds of the model.                                                    *)

\* an answer is not delivered once the session holds this many portraits
MaxPortraits == 3
\* ... or this many advices
MaxAdvices == 3
\* ... or this many history entries
MaxHistory == 5

\* the users that can talk to the bot
Users == {"u1", "u2"}

\* Python's None for an Optional[int]; question, branch and choice numbers
\* of the model are naturals
None == -1

----------------------------------------------------------------------------
(* Text.                                                                   *)

Whitespace == {" ", "\n", "\t"}

RECURSIVE LStrip(_)
LStrip(s) ==
    IF s = <<>> THEN <<>>
    ELSE IF Head(s) \in Whitespace THEN LStrip(Tail(s)) ELSE s

RECURSIVE RStrip(_)
RStrip(s) ==
    IF s = <<>> THEN <<>>
    ELSE IF s[Len(s)] \in Whitespace THEN RStrip(SubSeq(s, 1, Len(s) - 1)) ELSE s

\* str.strip()
Strip(s) == RStrip(LStrip(s))

LowerChar(c) ==
    CASE c = "A" -> "a"
      [] c = "B" -> "b"
      [] c = "X" -> "x"
      [] c = "Y" -> "y"
      [] OTHER -> c

\* str.lower()
Lower(s) == [i \in 1..Len(s) |-> LowerChar(s[i])]

Digits == <<"0", "1", "2", "3", "4", "5", "6", "7", "8", "9">>

DigitValue(c) == (CHOOSE i \in 1..10 : Digits[i] = c) - 1

IsDigit(c) == \E i \in 1..10 : Digits[i] = c

\* int(s) raises ValueError unless s, stripped, is a run of digits
IsInt(s) == Strip(s) # <<>> /\ \A i \in 1..Len(Strip(s)) : IsDigit(Strip(s)[i])

RECURSIVE DigitsValue(_)
DigitsValue(s) ==
    IF s = <<>> THEN 0
    ELSE 10 * DigitsValue(SubSeq(s, 1, Len(s) - 1)) + DigitValue(s[Len(s)])

\* int(s)
ParseInt(s) == DigitsValue(Strip(s))

----------------------------------------------------------------------------
(* Python dicts: <<key, value>> pairs in insertion order.                  *)

DictKeys(d) == {d[i][1] : i \in 1..Len(d)}

DictHas(d, k) == k \in DictKeys(d)

DictGet(d, k) == d[CHOOSE i \in 1..Len(d) : d[i][1] = k][2]

\* d[k] = v: a new key goes last, an old key keeps its place
DictSet(d, k, v) ==
    IF DictHas(d, k)
    THEN LET i == CHOOSE j \in 1..Len(d) : d[j][1] = k
         IN SubSeq(d, 1, i - 1) \o << <<k, v>> >> \o SubSeq(d, i + 1, Len(d))
    ELSE Append(d, <<k, v>>)

\* d.values()
DictValues(d) == [i \in 1..Len(d) |-> d[i][2]]

----------------------------------------------------------------------------
(* The rows of questions_succ.csv, as csv.DictReader yields them: every    *)
(* cell is text, an empty cell is the empty text.  The columns Эмодзи and  *)
(* the image of a question only decorate the message and are left out.     *)

Row(branch, q, intro, final, choice, otext, next, conf, portrait, advice, desc) ==
    [branch |-> branch, q |-> q, intro |-> intro, final |-> final,
     choice |-> choice, otext |-> otext, next |-> next, conf |-> conf,
     portrait |-> portrait, advice |-> advice, desc |-> desc]

\* the words of the column Финал that make a question final ("да" is
\* written "da" here)
FinalWords == {<<"d", "a">>, <<"y", "e", "s">>, <<"1">>}

\* one pass of the loop of load_questions over a row
LoadRow(questions, row) ==
    IF row.branch = <<>> \/ row.q = <<>> THEN questions
    ELSE IF ~IsInt(row.branch) \/ ~IsInt(row.q) THEN questions
    ELSE
      LET branch == ParseInt(row.branch)
          q_id == ParseInt(row.q)
          \* questions is a defaultdict(dict): questions[branch] makes the branch
          qs0 == IF DictHas(questions, branch) THEN questions
                 ELSE DictSet(questions, branch, <<>>)
          br0 == DictGet(qs0, branch)
          br1 == IF DictHas(br0, q_id) THEN br0
                 ELSE DictSet(br0, q_id,
                        [text |-> row.intro,
                         options |-> <<>>,
                         is_final |-> Lower(Strip(row.final)) \in FinalWords])
          qs1 == DictSet(qs0, branch, br1)
          question == DictGet(br1, q_id)
      IN IF row.choice = <<>> \/ row.otext = <<>> THEN qs1
         ELSE IF ~IsInt(row.choice) THEN qs1
         ELSE IF row.next # <<>> /\ ~IsInt(row.next) THEN qs1
         ELSE
           LET option == [text |-> row.otext,
                          next_q |-> IF row.next # <<>> THEN ParseInt(row.next) ELSE None,
                          confirmation |-> Strip(row.conf),
                          portrait |-> row.portrait,
                          advice |-> row.advice,
                          description |-> row.desc]
               q1 == [question EXCEPT
                        !.options = DictSet(@, ParseInt(row.choice), option)]
           IN DictSet(qs1, branch, DictSet(br1, q_id, q1))

----------------------------------------------------------------------------
(* UserSession.                                                            *)

\* UserSession()
\* a UserSession() that starts at question 1 with the history [1]
NewSessionAtQuestion1 ==
    [branch |-> None, current_q |-> 1, advices |-> <<>>,
     confirmations |-> <<>>, history |-> <<1>>, portraits |-> <<>>,
     seen_subscription_prompt |-> FALSE]

NewSession ==
    [branch |-> None, current_q |-> None, advices |-> <<>>,
     confirmations |-> <<>>, history |-> <<>>, portraits |-> <<>>,
     seen_subscription_prompt |-> FALSE]

start_branch(session, branch) ==
    [session EXCEPT !.branch = branch, !.current_q = 1, !.advices = <<>>,
                    !.confirmations = <<>>, !.history = <<1>>,
                    !.portraits = <<>>, !.seen_subscription_prompt = FALSE]

\* add_advice that does not store an advice the session already has
add_advice_once(session, advice) ==
    IF /\ advice # <<>>
       /\ Strip(advice) # <<>>
       /\ \A i \in 1..Len(session.advices) : session.advices[i] # Strip(advice)
    THEN [session EXCEPT !.advices = Append(@, Strip(advice))]
    ELSE session

add_advice(session, advice) ==
    IF advice # <<>> /\ Strip(advice) # <<>>
    THEN [session EXCEPT !.advices = Append(@, Strip(advice))]
    ELSE session

add_confirmation(session, confirmation) ==
    IF confirmation # <<>> /\ Strip(confirmation) # <<>>
    THEN [session EXCEPT !.confirmations = Append(@, Strip(confirmation))]
    ELSE session

add_portrait(session, portrait) ==
    IF portrait # <<>> /\ Strip(portrait) # <<>>
    THEN [session EXCEPT !.portraits = Append(@, Strip(portrait))]
    ELSE session

\* get_current_question finds a question
HasCurrentQuestion(session, questions) ==
    /\ session.branch # None
    /\ session.current_q # None
    /\ DictHas(questions, session.branch)
    /\ DictHas(DictGet(questions, session.branch), session.current_q)

\* the question get_current_question returns when it finds one
get_current_question(session, questions) ==
    DictGet(DictGet(questions, session.branch), session.current_q)

\* move_to_next without line 97: the new question is not pushed
move_to_next_unrecorded(session, next_q) == [session EXCEPT !.current_q = next_q]

move_to_next(session, next_q) ==
    IF next_q # None
    THEN [session EXCEPT !.current_q = next_q, !.history = Append(@, next_q)]
    ELSE session

\* go_back returns True
CanGoBack(session) == Len(session.history) > 1

\* go_back without line 102: the history is popped, current_q is left
go_back_keeps_current(session) ==
    [session EXCEPT !.history = SubSeq(@, 1, Len(@) - 1)]

\* a go_back that also clears seen_subscription_prompt
go_back_forgets_prompt(session) ==
    LET popped == SubSeq(session.history, 1, Len(session.history) - 1)
    IN [session EXCEPT !.history = popped, !.current_q = popped[Len(popped)],
                       !.seen_subscription_prompt = FALSE]

\* the session after a go_back that returns True
go_back(session) ==
    LET popped == SubSeq(session.history, 1, Len(session.history) - 1)
    IN [session EXCEPT !.history = popped, !.current_q = popped[Len(popped)]]

----------------------------------------------------------------------------
(* The final result: UserSession.portrait and show_final_message.          *)

\* the label of a session without portraits ("универсальный работник")
UniversalWorker == <<"u", "w">>

Count(seq, x) == Cardinality({i \in 1..Len(seq) : seq[i] = x})

\* the places of seq that hold the first occurrence of their element:
\* the keys of Counter(seq), in the order the Counter holds them
FirstPlaces(seq) == {i \in 1..Len(seq) : \A j \in 1..(i - 1) : seq[j] # seq[i]}

\* most_common over a Counter that holds its keys in the reverse order: of
\* the keys with the largest count the one seen last
MostCommonLatest(seq) ==
    LET best == CHOOSE i \in FirstPlaces(seq) :
                  \A j \in FirstPlaces(seq) :
                    \/ Count(seq, seq[j]) < Count(seq, seq[i])
                    \/ Count(seq, seq[j]) = Count(seq, seq[i]) /\ i >= j
    IN seq[best]

\* Counter(seq).most_common(1)[0][0]: the first key with the largest count
MostCommon(seq) ==
    LET best == CHOOSE i \in FirstPlaces(seq) :
                  \A j \in FirstPlaces(seq) :
                    \/ Count(seq, seq[j]) < Count(seq, seq[i])
                    \/ Count(seq, seq[j]) = Count(seq, seq[i]) /\ i <= j
    IN seq[best]

\* the property UserSession.portrait
portrait(session) ==
    IF session.portraits # <<>> THEN MostCommon(session.portraits)
    ELSE UniversalWorker

RECURSIVE Concat(_)
Concat(seqs) == IF seqs = <<>> THEN <<>> ELSE Head(seqs) \o Concat(Tail(seqs))

\* the options of the graph in the order the three nested loops of
\* show_final_message visit them
OptionsInOrder(questions) ==
    LET ofQuestion(question) == DictValues(question.options)
        ofBranch(branch) ==
            Concat([i \in 1..Len(branch) |-> ofQuestion(DictValues(branch)[i])])
    IN Concat([i \in 1..Len(questions) |-> ofBranch(DictValues(questions)[i])])

\* the generic description of a portrait without a description in the graph
GenericDescription(name) == <<"<", "b", ">">> \o name \o <<"<", "/", "b", ">">>

portrait_description(session, questions) ==
    LET portrait_key == Lower(portrait(session))
        options == OptionsInOrder(questions)
        hits == {i \in 1..Len(options) :
                   /\ Lower(options[i].portrait) = portrait_key
                   /\ Strip(options[i].description) # <<>>}
    IN IF hits # {}
       THEN Strip(options[CHOOSE i \in hits : \A j \in hits : i <= j].description)
       ELSE GenericDescription(portrait(session))

\* a deduplication that keeps the last occurrence of each element
RECURSIVE UniqueLatest(_)
UniqueLatest(seq) ==
    IF seq = <<>> THEN <<>>
    ELSE IF \E i \in 2..Len(seq) : seq[i] = Head(seq)
         THEN UniqueLatest(Tail(seq))
    ELSE <<Head(seq)>> \o UniqueLatest(Tail(seq))

\* list(dict.fromkeys(seq)): the first occurrences, in order
RECURSIVE Unique(_)
Unique(seq) ==
    IF seq = <<>> THEN <<>>
    ELSE LET init == SubSeq(seq, 1, Len(seq) - 1)
             last == seq[Len(seq)]
         IN IF \E i \in 1..Len(init) : init[i] = last
            THEN Unique(init) ELSE Append(Unique(init), last)

\* s.replace(c, '')
RECURSIVE Remove(_, _)
Remove(s, c) ==
    IF s = <<>> THEN <<>>
    ELSE IF Head(s) = c THEN Remove(Tail(s), c)
    ELSE <<Head(s)>> \o Remove(Tail(s), c)

\* s.find(c): the 0-based place of the first c, -1 without one
Find(s, c) ==
    IF \E i \in 1..Len(s) : s[i] = c
    THEN (CHOOSE i \in 1..Len(s) : s[i] = c /\ \A j \in 1..(i - 1) : s[j] # c) - 1
    ELSE -1

Min(a, b) == IF a < b THEN a ELSE b

\* the place show_final_message splits an advice at, -1 for no split
SplitPos(formatted_advice) ==
    LET dot_pos == Find(formatted_advice, ".")
        newline_pos == Find(formatted_advice, "\n")
    IN IF dot_pos > 0 /\ newline_pos > 0 THEN Min(dot_pos, newline_pos)
       ELSE IF dot_pos > 0 THEN dot_pos
       ELSE IF newline_pos > 0 THEN newline_pos
       ELSE -1

\* one line of advice_lines: its number, and the heading in bold with the
\* body after it, or the whole advice when it is not split
AdviceLine(i, advice) ==
    LET formatted_advice == Remove(advice, "*")
        split_pos == SplitPos(formatted_advice)
        name == Strip(SubSeq(formatted_advice, 1, split_pos))
    IN IF split_pos > 0
       THEN [n |-> i + 1, split |-> TRUE,
             heading |-> IF formatted_advice[split_pos + 1] = "."
                         THEN Append(name, ".") ELSE name,
             body |-> Strip(SubSeq(formatted_advice, split_pos + 2,
                                   Len(formatted_advice)))]
       ELSE [n |-> i + 1, split |-> FALSE, heading |-> formatted_advice,
             body |-> <<>>]

advice_lines(session) ==
    LET unique_advices == Unique(session.advices)
    IN [i \in 1..Len(unique_advices) |-> AdviceLine(i - 1, unique_advices[i])]

\* what show_final_message puts into final_text from the session
FinalResult(session, questions) ==
    [portrait |-> portrait(session),
     description |-> portrait_description(session, questions),
     advices |-> advice_lines(session)]

NoResult == [portrait |-> <<>>, description |-> <<>>, advices |-> <<>>]

----------------------------------------------------------------------------
(* The state of FinanceBot.                                                *)

VARIABLES
    users,          \* the users that send updates in this run
    reader,         \* the rows load_questions has still to read
    questions,      \* self.questions, built by load_questions row by row
    user_sessions,  \* self.user_sessions: a dict from user ids to sessions
    update,         \* the update handled last: its user, its kind, its number
    view,           \* per user, what the last update handled for them sent
    trip            \* per user, how far the updates handled for them are
                    \* along the walk "branch_2", three answers that go
                    \* on, three steps back (0: not on it)

vars == <<users, reader, questions, user_sessions, update, view, trip>>

\* the question on which branch 1 always ends
LastQuestionOfBranch1 == 12

\* self.user_sessions[u] = session
Put(sessions, u, session) ==
    [v \in DOMAIN sessions \cup {u} |-> IF v = u THEN session ELSE sessions[v]]

\* self.user_sessions.pop(u, None)
Pop(sessions, u) == [v \in DOMAIN sessions \ {u} |-> sessions[v]]

\* The messages.  kind is "idle" before the first update, "silent" when the
\* handler sent nothing, "start" for the welcome message, "question",
\* "interstitial" for the subscription prompt, "final" for the final
\* message and "error" for a one-line reply, whose text is in error.
Message(kind) ==
    [kind |-> kind, error |-> "", branch |-> None, q |-> None,
     prefix |-> <<>>, back |-> FALSE, result |-> NoResult]

ErrorMessage(msg) == [Message("error") EXCEPT !.error = msg]

\* the one-line replies: "Сессия сброшена", "Ошибка: вопрос не найден",
\* "Неверный выбор" and "Нельзя вернуться назад"
SessionReset == "session reset"
QuestionNotFound == "question not found"
InvalidChoice == "invalid choice"
BackNotAllowed == "cannot go back"

\* A handler's effect: the sessions it leaves and the message it sent.
Effect(sessions, out) == [sessions |-> sessions, out |-> out]

\* clean_session without line 577: the reply is sent, the session stays
clean_session_keeps(sessions, u, msg) == Effect(sessions, ErrorMessage(msg))

\* clean_session that empties the whole of user_sessions
clean_session_of_all(sessions, u, msg) == Effect(<<>>, ErrorMessage(msg))

clean_session(sessions, u, msg) == Effect(Pop(sessions, u), ErrorMessage(msg))

\* the message with the current question of a session: the confirmations
\* before the text, a button per option and the back button
QuestionMessage(session) ==
    [Message("question") EXCEPT
       !.branch = session.branch, !.q = session.current_q,
       !.prefix = session.confirmations,
       !.back = Len(session.history) > 1]

\* the body without lines 420 and 469: the confirmations stay in the list
ShowCurrent_without_clear(sessions, u) ==
    LET session == sessions[u]
    IN IF ~HasCurrentQuestion(session, questions)
       THEN clean_session(sessions, u, QuestionNotFound)
       ELSE Effect(sessions, QuestionMessage(session))

\* the body shared by show_question and handle_branch once the session is
\* at hand: look the question up, send it, clear the confirmations
ShowCurrent(sessions, u) ==
    LET session == sessions[u]
    IN IF ~HasCurrentQuestion(session, questions)
       THEN clean_session(sessions, u, QuestionNotFound)
       ELSE Effect(Put(sessions, u, [session EXCEPT !.confirmations = <<>>]),
                   QuestionMessage(session))

show_question(sessions, u) ==
    IF u \notin DOMAIN sessions THEN clean_session(sessions, u, SessionReset)
    ELSE ShowCurrent(sessions, u)

\* show_final_message without line 364: the session stays in the dict
show_final_message_keeps(sessions, u) ==
    IF u \notin DOMAIN sessions THEN Effect(sessions, Message("silent"))
    ELSE Effect(sessions,
                [Message("final") EXCEPT
                   !.result = FinalResult(sessions[u], questions)])

show_final_message(sessions, u) ==
    IF u \notin DOMAIN sessions THEN Effect(sessions, Message("silent"))
    ELSE Effect(Pop(sessions, u),
                [Message("final") EXCEPT
                   !.result = FinalResult(sessions[u], questions)])

\* ask_for_subscription without line 222: the prompt is not remembered
ask_for_subscription_forgets(sessions, u) ==
    IF u \notin DOMAIN sessions THEN Effect(sessions, Message("silent"))
    ELSE IF sessions[u].seen_subscription_prompt
         THEN show_final_message(sessions, u)
    ELSE Effect(sessions, Message("interstitial"))

ask_for_subscription(sessions, u) ==
    IF u \notin DOMAIN sessions THEN Effect(sessions, Message("silent"))
    ELSE IF sessions[u].seen_subscription_prompt
         THEN show_final_message(sessions, u)
    ELSE Effect(Put(sessions, u,
                    [sessions[u] EXCEPT !.seen_subscription_prompt = TRUE]),
                Message("interstitial"))

\* handle_branch without lines 410-412: branch 1 starts like the others
BranchSessionWithoutSkip(branch) == start_branch(NewSession, branch)

\* the session of handle_branch before it looks the question up
BranchSession(branch) ==
    LET session == start_branch(NewSession, branch)
    IN IF branch = 1
       THEN [session EXCEPT !.current_q = 2, !.history = <<1, 2>>]
       ELSE session

\* handle_branch without line 407 and with a start_branch that sets the
\* position alone: a session the user already has is kept
handle_branch_keeps(sessions, u, branch) ==
    LET session == BranchSession(branch)
    IN ShowCurrent(Put(sessions, u,
                       IF u \in DOMAIN sessions
                       THEN [sessions[u] EXCEPT !.branch = session.branch,
                                                !.current_q = session.current_q,
                                                !.history = session.history]
                       ELSE session), u)

handle_branch(sessions, u, branch) ==
    ShowCurrent(Put(sessions, u, BranchSession(branch)), u)

\* the session of handle_answer after the three add_ calls
Recorded(session, option) ==
    add_advice(add_portrait(add_confirmation(session, option.confirmation),
                            option.portrait),
               option.advice)

\* the test of line 550 without its last disjunct: the graph alone decides
FinishesByGraph(session, question, option) ==
    option.next_q = None \/ question.is_final

\* the test of handle_answer that ends the questionnaire
Finishes(session, question, option) ==
    \/ option.next_q = None
    \/ question.is_final
    \/ session.branch = 1 /\ session.current_q = LastQuestionOfBranch1

\* handle_answer with lines 549-552 before lines 543-548: an answer that
\* ends the questionnaire is not recorded
handle_answer_decides_first(sessions, u, choice_id) ==
    IF u \notin DOMAIN sessions THEN clean_session(sessions, u, SessionReset)
    ELSE IF ~HasCurrentQuestion(sessions[u], questions)
         THEN clean_session(sessions, u, QuestionNotFound)
    ELSE LET session == sessions[u]
             question == get_current_question(session, questions)
         IN IF ~DictHas(question.options, choice_id)
            THEN Effect(sessions, ErrorMessage(InvalidChoice))
            ELSE LET option == DictGet(question.options, choice_id)
                     recorded == Recorded(session, option)
                 IN IF Finishes(session, question, option)
                    THEN ask_for_subscription(sessions, u)
                    ELSE show_question(
                           Put(sessions, u, move_to_next(recorded, option.next_q)), u)

\* handle_answer with the move_to_next of line 555 before the test of line
\* 550: an answer that ends the questionnaire moves on as well
handle_answer_moves_first(sessions, u, choice_id) ==
    IF u \notin DOMAIN sessions THEN clean_session(sessions, u, SessionReset)
    ELSE IF ~HasCurrentQuestion(sessions[u], questions)
         THEN clean_session(sessions, u, QuestionNotFound)
    ELSE LET session == sessions[u]
             question == get_current_question(session, questions)
         IN IF ~DictHas(question.options, choice_id)
            THEN Effect(sessions, ErrorMessage(InvalidChoice))
            ELSE LET option == DictGet(question.options, choice_id)
                     recorded == Recorded(session, option)
                     moved == move_to_next(recorded, option.next_q)
                 IN IF Finishes(recorded, question, option)
                    THEN ask_for_subscription(Put(sessions, u, moved), u)
                    ELSE show_question(Put(sessions, u, moved), u)

handle_answer(sessions, u, choice_id) ==
    IF u \notin DOMAIN sessions THEN clean_session(sessions, u, SessionReset)
    ELSE IF ~HasCurrentQuestion(sessions[u], questions)
         THEN clean_session(sessions, u, QuestionNotFound)
    ELSE LET session == sessions[u]
             question == get_current_question(session, questions)
         IN IF ~DictHas(question.options, choice_id)
            THEN Effect(sessions, ErrorMessage(InvalidChoice))
            ELSE LET option == DictGet(question.options, choice_id)
                     recorded == Recorded(session, option)
                 IN IF Finishes(recorded, question, option)
                    THEN ask_for_subscription(Put(sessions, u, recorded), u)
                    ELSE show_question(
                           Put(sessions, u, move_to_next(recorded, option.next_q)), u)

\* handle_back that treats a refused step back like the other errors and
\* calls clean_session
handle_back_resets(sessions, u) ==
    IF u \notin DOMAIN sessions \/ ~CanGoBack(sessions[u])
    THEN clean_session(sessions, u, BackNotAllowed)
    ELSE show_question(Put(sessions, u, go_back(sessions[u])), u)

handle_back(sessions, u) ==
    IF u \notin DOMAIN sessions \/ ~CanGoBack(sessions[u])
    THEN Effect(sessions, ErrorMessage(BackNotAllowed))
    ELSE show_question(Put(sessions, u, go_back(sessions[u])), u)

start(sessions, u) == Effect(Put(sessions, u, NewSession), Message("start"))

handle_restart(sessions, u) == start(Put(sessions, u, NewSession), u)

skip_subscription(sessions, u) == show_final_message(sessions, u)

----------------------------------------------------------------------------
(* The files of questions the runs start from, and the updates that can    *)
(* arrive.                                                                 *)

E == <<>>
N1 == <<"1">>
N2 == <<"2">>
N3 == <<"3">>
N4 == <<"4">>
N5 == <<"5">>
N9 == <<"9">>
N12 == <<"1", "2">>
N13 == <<"1", "3">>
Yes == <<"Y", "e", "s", " ">>
Txt == <<"t">>
Ok == <<"o", "k">>
Fine == <<" ", "f", "i", "n", "e">>
PX == <<"X">>
PY == <<"Y">>
Px == <<" ", "x">>
AdvA == <<"*", "A", "*", ".", "x">>
AdvB == <<"B", " ", "\n", "y", ".">>
AdvC == <<".", "c">>
DescX == <<"d", "X">>
DescY == <<"d", "Y", " ">>

\* Branch 1 runs 1 (the introduction), 2, 12, 13 and question 12 declares an
\* option that goes on to 13; branch 2 is a path 1, 2, 3, 4 with a dangling
\* next question 9 on the way; branch 5 ends on the second option of its
\* first question and its question 2 leads back to question 1; a row
\* without a branch and a row with a choice that is no number are skipped;
\* there is no branch 3.
RowsOfBranch1 ==
    << Row(N1, N1,  Txt, E,   N1, Txt, N2,  E,    E,  E,    E),
       Row(N1, N2,  Txt, E,   N1, Txt, N12, Ok,   PX, AdvA, E),
       Row(N1, N2,  Txt, E,   N2, Txt, N12, E,    PY, AdvB, DescY),
       Row(N1, N12, Txt, E,   N1, Txt, N13, Fine, PY, E,    E),
       Row(N1, N12, Txt, E,   N2, Txt, E,   E,    Px, AdvA, DescX),
       Row(N1, N13, Txt, Yes, N1, Txt, N2,  E,    E,  E,    E) >>

RowsOfBranch2 ==
    << Row(N2, N1,  Txt, E,   N1, Txt, N2,  Ok,   PX, AdvA, E),
       Row(N2, N1,  Txt, E,   N2, Txt, N9,  E,    E,  E,    E),
       Row(E,  N1,  Txt, E,   N1, Txt, N2,  E,    PX, E,    E),
       Row(N2, N2,  Txt, E,   N1, Txt, N3,  E,    E,  E,    E),
       Row(N2, N2,  Txt, E,   Txt, Txt, N3, E,    PY, E,    E),
       Row(N2, N3,  Txt, E,   N1, Txt, N4,  Fine, PY, AdvB, E),
       Row(N2, N3,  Txt, E,   N2, Txt, N4,  E,    E,  AdvC, E),
       Row(N2, N4,  Txt, Yes, N1, Txt, N1,  E,    PY, AdvA, E) >>

RowsOfBranch5 ==
    << Row(N5, N1,  Txt, E,   N1, Txt, N2,  E,    PY, E,    E),
       Row(N5, N1,  Txt, E,   N2, Txt, E,   Ok,   PX, AdvB, E),
       Row(N5, N2,  Txt, E,   N1, Txt, N1,  E,    E,  AdvC, E),
       Row(N5, N2,  Txt, E,   N2, Txt, E,   E,    E,  E,    E) >>

\* the files: the whole file, the file without the introduction of
\* branch 1, and the file with branch 5 first
WholeFile == RowsOfBranch1 \o RowsOfBranch2 \o RowsOfBranch5
FileWithoutIntroduction == Tail(RowsOfBranch1) \o RowsOfBranch2 \o RowsOfBranch5
FileInOtherOrder == RowsOfBranch5 \o RowsOfBranch2 \o RowsOfBranch1

\* the branch of a "branch_<n>" button and the choice of an "answer_<n>"
\* button that can arrive
BranchInputs == {1, 2, 3, 5}
ChoiceInputs == {1, 2, 3}

----------------------------------------------------------------------------
(* The updates.                                                            *)

Update(u, kind, arg) == [user |-> u, kind |-> kind, arg |-> arg]

Init ==
    /\ users = {"u1"}
    /\ reader \in {WholeFile, FileWithoutIntroduction, FileInOtherOrder}
    /\ questions = <<>>
    /\ user_sessions = <<>>
    /\ update = Update("", "none", None)
    /\ view = [u \in users |-> Message("idle")]
    /\ trip = [u \in users |-> 0]

\* load_questions, a row at a time; FinanceBot() returns after the last
load_questions ==
    /\ reader # <<>>
    /\ questions' = LoadRow(questions, Head(reader))
    /\ reader' = Tail(reader)
    /\ UNCHANGED <<users, user_sessions, update, view, trip>>

\* the place on the walk after an update of this kind was answered by out
NextTrip(at, kind, arg, out) ==
    IF kind = "branch" /\ arg = 2 /\ out.kind = "question" THEN 1
    ELSE IF kind = "answer" /\ at \in 1..3 /\ out.kind = "question" THEN at + 1
    ELSE IF kind = "back" /\ at \in 4..6 /\ out.kind = "question" THEN at + 1
    ELSE 0

\* run() handles updates once FinanceBot() has returned; the handler's
\* effect becomes the state
Respond(u, kind, arg, effect) ==
    /\ reader = <<>>
    /\ user_sessions' = effect.sessions
    /\ update' = Update(u, kind, arg)
    /\ view' = [view EXCEPT ![u] = effect.out]
    /\ trip' = [trip EXCEPT ![u] = NextTrip(@, kind, arg, effect.out)]
    /\ UNCHANGED <<users, reader, questions>>

\* a session that has not outgrown the bounds of the model
WithinBounds(u) ==
    u \in DOMAIN user_sessions =>
        /\ Len(user_sessions[u].portraits) < MaxPortraits
        /\ Len(user_sessions[u].advices) < MaxAdvices
        /\ Len(user_sessions[u].history) < MaxHistory

\* /start
Start(u) == Respond(u, "start", None, start(user_sessions, u))

\* a "branch_<n>" button
StartBranch(u, branch) ==
    Respond(u, "branch", branch, handle_branch(user_sessions, u, branch))

\* an "answer_<n>" button
Answer(u, choice_id) ==
    /\ WithinBounds(u)
    /\ Respond(u, "answer", choice_id, handle_answer(user_sessions, u, choice_id))

\* the "back" button
Back(u) == Respond(u, "back", None, handle_back(user_sessions, u))

\* the "restart" button
Restart(u) == Respond(u, "restart", None, handle_restart(user_sessions, u))

\* the "skip_subscription" button
SkipInterstitial(u) ==
    Respond(u, "skip", None, skip_subscription(user_sessions, u))

\* an update of each kind, from any user and with any number
SomeStart == \E u \in users : Start(u)
SomeStartBranch == \E u \in users : \E branch \in BranchInputs : StartBranch(u, branch)
SomeAnswer == \E u \in users : \E choice_id \in ChoiceInputs : Answer(u, choice_id)
SomeBack == \E u \in users : Back(u)
SomeRestart == \E u \in users : Restart(u)
SomeSkipInterstitial == \E u \in users : SkipInterstitial(u)

Next ==
    \/ load_questions
    \/ SomeStart
    \/ SomeStartBranch
    \/ SomeAnswer
    \/ SomeBack
    \/ SomeRestart
    \/ SomeSkipInterstitial

Spec == Init /\ [][Next]_vars

----------------------------------------------------------------------------
(* The result of show_final_message as a function of the session: the      *)
(* sessions are those a user reaches on a question that leads back to      *)
(* itself, by up to MaxAnswers answers.                                    *)

MaxAnswers == 4

ResultBranch == 7
N7 == <<"7">>

\* one question whose three options lead back to it
ResultRows ==
    << Row(N7, N1, Txt, E, N1, Txt, N1, E, PX, AdvA, E),
       Row(N7, N1, Txt, E, N2, Txt, N1, E, PY, AdvB, DescY),
       Row(N7, N1, Txt, E, N3, Txt, N1, E, Px, E,    E) >>

\* self.questions after load_questions has read ResultRows
ResultGraph ==
    LoadRow(LoadRow(LoadRow(<<>>, ResultRows[1]), ResultRows[2]), ResultRows[3])

\* the user has pressed the button of the branch
InitResult ==
    /\ users = {"u1"}
    /\ reader = <<>>
    /\ questions = ResultGraph
    /\ user_sessions = handle_branch(<<>>, "u1", ResultBranch).sessions
    /\ update = Update("u1", "branch", ResultBranch)
    /\ view = [u \in users |-> handle_branch(<<>>, u, ResultBranch).out]
    /\ trip = [u \in users |-> 0]

\* an "answer_<n>" button, up to MaxAnswers times
AnswerAgain(u, choice_id) ==
    /\ u \in DOMAIN user_sessions
    /\ Len(user_sessions[u].history) <= MaxAnswers
    /\ Respond(u, "answer", choice_id, handle_answer(user_sessions, u, choice_id))

\* lines 276-344 of show_final_message: the result is computed from the
\* session, which is still in user_sessions until the finally clause
Aggregate(u) ==
    /\ u \in DOMAIN user_sessions
    /\ view[u].kind # "final"
    /\ view' = [view EXCEPT ![u] =
                  [Message("final") EXCEPT
                     !.result = FinalResult(user_sessions[u], questions)]]
    /\ UNCHANGED <<users, reader, questions, user_sessions, update, trip>>

SomeAggregate == \E u \in users : Aggregate(u)

SomeAnswerAgain ==
    \E u \in users : \E choice_id \in ChoiceInputs : AnswerAgain(u, choice_id)

NextResult ==
    \/ SomeAnswerAgain
    \/ SomeAggregate
    \/ SomeSkipInterstitial

SpecResult == InitResult /\ [][NextResult]_vars

----------------------------------------------------------------------------
(* Two users and a file of two questions: the answers that end the         *)
(* questionnaire carry the portrait tags and the advices.                  *)

RowsOfTwo ==
    << Row(N5, N1, Txt, E, N1, Txt, N2, Fine, E,  E,    E),
       Row(N5, N1, Txt, E, N2, Txt, E,  Ok,   PX, AdvB, E),
       Row(N5, N2, Txt, E, N1, Txt, E,  E,    PY, AdvA, DescY) >>

InitOfTwo ==
    /\ users = Users
    /\ reader = RowsOfTwo
    /\ questions = <<>>
    /\ user_sessions = <<>>
    /\ update = Update("", "none", None)
    /\ view = [u \in users |-> Message("idle")]
    /\ trip = [u \in users |-> 0]

SpecOfTwo == InitOfTwo /\ [][Next]_vars

----------------------------------------------------------------------------
(* Two branches whose options share a portrait, in lower and in upper      *)
(* case, and differ in its description; the file has them in either order. *)

Lx == <<"x">>
DescOf2 == <<"d", "2">>
DescOf5 == <<" ", "d", "5">>

RowsOfDescription2 ==
    << Row(N2, N1, Txt, E, N1, Txt, N2, Ok, PX, AdvA, DescOf2),
       Row(N2, N1, Txt, E, N2, Txt, E,  E,  PY, E,    E),
       Row(N2, N2, Txt, E, N1, Txt, E,  E,  PY, AdvB, DescY) >>

RowsOfDescription5 ==
    << Row(N5, N1, Txt, E, N1, Txt, E,  E,  Lx, AdvB, DescOf5),
       Row(N5, N1, Txt, E, N2, Txt, N2, E,  E,  E,    E),
       Row(N5, N2, Txt, E, N1, Txt, E,  E,  PY, E,    DescX) >>

InitDescription ==
    /\ users = {"u1"}
    /\ reader \in {RowsOfDescription2 \o RowsOfDescription5,
                   RowsOfDescription5 \o RowsOfDescription2}
    /\ questions = <<>>
    /\ user_sessions = <<>>
    /\ update = Update("", "none", None)
    /\ view = [u \in users |-> Message("idle")]
    /\ trip = [u \in users |-> 0]

SpecDescription == InitDescription /\ [][Next]_vars

----------------------------------------------------------------------------
(* The claims.                                                             *)

HasSession(u) == u \in DOMAIN user_sessions

\* the session has a branch
InBranch(session) == session.branch # None

\* C1: in every reachable state, the session of every user that has a branch
\* has a history that is not empty and ends with current_q.
C1_HistoryEndsWithCurrent ==
    \A u \in DOMAIN user_sessions :
        LET session == user_sessions[u]
        IN InBranch(session) =>
              /\ Len(session.history) >= 1
              /\ session.history[Len(session.history)] = session.current_q

\* C1 witness: a session in a branch that an answer has moved on and a step
\* back has moved again, with the interstitial behind it.
C1_Witness ==
    \E u \in DOMAIN user_sessions :
        /\ InBranch(user_sessions[u])
        /\ update = Update(u, "back", None)
        /\ view[u].kind = "question"
        /\ Len(user_sessions[u].history) >= 2
        /\ user_sessions[u].seen_subscription_prompt

\* the history without its last entry
Popped(history) == SubSeq(history, 1, Len(history) - 1)

\* what C2 says of a step back of user u from a session in a branch
BackAsClaimed(u) ==
    LET session == user_sessions[u]
    IN IF Len(session.history) > 1
       THEN /\ u \in DOMAIN user_sessions'
            /\ user_sessions'[u].history = Popped(session.history)
            /\ user_sessions'[u].current_q =
                  Popped(session.history)[Len(session.history) - 1]
            /\ view'[u].kind = "question"
            /\ view'[u].branch = session.branch
            /\ view'[u].q = user_sessions'[u].current_q
       ELSE /\ user_sessions' = user_sessions
            /\ view'[u] = ErrorMessage(BackNotAllowed)

\* C2: a step back from a session in a branch succeeds whenever the history
\* has more than one entry (the top is popped, current_q is the new last
\* entry, that question is shown and the session is kept), and with one
\* entry it is refused and changes no session.
C2_BackSucceedsUntilRoot ==
    [][\A u \in users :
          Back(u) /\ HasSession(u) /\ InBranch(user_sessions[u])
             => BackAsClaimed(u)]_vars

\* C2 holds of every step back but the one on the question that
\* handle_branch put into the history of branch 1 without looking it up.
C2_BackSucceedsToShownQuestions ==
    [][\A u \in users :
          /\ Back(u) /\ HasSession(u) /\ InBranch(user_sessions[u])
          /\ ~(/\ user_sessions[u].branch = 1
               /\ user_sessions[u].history = <<1, 2>>
               /\ ~DictHas(DictGet(questions, 1), 1))
          => BackAsClaimed(u)]_vars

\* the user has just walked "branch_2", three answers that went on and
\* three steps back
RoundTripDone(u) == trip[u] = 7

\* C3: after StartBranch(2), three answers that go on and three steps back,
\* the session equals the session right after StartBranch(2) in every field.
C3_RoundTripRestoresAll ==
    \A u \in users :
        RoundTripDone(u) =>
            /\ HasSession(u)
            /\ user_sessions[u] =
                  [branch |-> 2, current_q |-> 1, history |-> <<1>>,
                   confirmations |-> <<>>, advices |-> <<>>, portraits |-> <<>>,
                   seen_subscription_prompt |-> FALSE]

\* C3 as amended: after that walk branch, current_q, history, confirmations
\* and seen_subscription_prompt are those right after StartBranch(2), and
\* the three steps back leave advices and portraits as the answers made them.
C3_RoundTripRestoresPosition ==
    /\ [](\A u \in users :
            RoundTripDone(u) =>
                /\ HasSession(u)
                /\ user_sessions[u].branch = 2
                /\ user_sessions[u].current_q = 1
                /\ user_sessions[u].history = <<1>>
                /\ user_sessions[u].confirmations = <<>>
                /\ user_sessions[u].seen_subscription_prompt = FALSE)
    /\ [][\A u \in users :
            trip[u] \in 4..6 /\ trip'[u] = trip[u] + 1 =>
                /\ user_sessions'[u].advices = user_sessions[u].advices
                /\ user_sessions'[u].portraits = user_sessions[u].portraits]_vars

\* C3 witness: the walk is done and its answers have left two portraits and
\* two advices in the session.
C3_Witness ==
    \E u \in users :
        /\ RoundTripDone(u)
        /\ Len(user_sessions[u].portraits) = 2
        /\ Len(user_sessions[u].advices) = 2

\* the graph has question q of branch b
InGraph(b, q) == DictHas(questions, b) /\ DictHas(DictGet(questions, b), q)

\* C4: StartBranch(1) leaves current_q = 2 and history = <<1, 2>>, every
\* other StartBranch(b) leaves current_q = 1 and history = <<1>>, and when
\* that question is in the graph it is the question shown and the session
\* is kept.
C4_StartBranchLanding ==
    [][\A u \in users : \A b \in BranchInputs :
          StartBranch(u, b) =>
             LET q == IF b = 1 THEN 2 ELSE 1
                 h == IF b = 1 THEN <<1, 2>> ELSE <<1>>
             IN /\ u \in DOMAIN user_sessions' =>
                      /\ user_sessions'[u].branch = b
                      /\ user_sessions'[u].current_q = q
                      /\ user_sessions'[u].history = h
                /\ InGraph(b, q) =>
                      /\ u \in DOMAIN user_sessions'
                      /\ view'[u].kind = "question"
                      /\ view'[u].branch = b
                      /\ view'[u].q = q]_vars

\* C4 witness: branch 1 has just been started, in a graph that has its
\* question 1, and question 2 is shown.
C4_Witness ==
    \E u \in DOMAIN user_sessions :
        /\ update = Update(u, "branch", 1)
        /\ view[u].kind = "question"
        /\ view[u].q = 2
        /\ user_sessions[u].history = <<1, 2>>
        /\ InGraph(1, 1)

\* C5: no user is ever shown question 1 of branch 1.
C5_IntroductionNeverShown ==
    \A u \in users :
        ~(view[u].kind = "question" /\ view[u].branch = 1 /\ view[u].q = 1)

\* the session of u is on question q of branch b, which the graph has, and
\* choice_id is one of its options
ValidAnswer(u, b, q, choice_id) ==
    /\ HasSession(u)
    /\ user_sessions[u].branch = b
    /\ user_sessions[u].current_q = q
    /\ InGraph(b, q)
    /\ DictHas(DictGet(DictGet(questions, b), q).options, choice_id)

\* C6: in branch 1 a valid answer to question 12 always ends the
\* questionnaire (the interstitial or the final message follows) and never
\* moves to another question, whatever the graph declares.
C6_Question12OfBranch1Finishes ==
    [][\A u \in users : \A choice_id \in ChoiceInputs :
          Answer(u, choice_id) /\ ValidAnswer(u, 1, LastQuestionOfBranch1, choice_id)
             => /\ view'[u].kind \in {"interstitial", "final"}
                /\ u \in DOMAIN user_sessions' =>
                      /\ user_sessions'[u].current_q = LastQuestionOfBranch1
                      /\ user_sessions'[u].history = user_sessions[u].history]_vars

\* C6 witness: the option of question 12 that declares question 13 as its
\* next question, on a question that is not final, has led to the
\* interstitial.
C6_Witness ==
    \E u \in DOMAIN user_sessions :
        /\ user_sessions[u].branch = 1
        /\ user_sessions[u].current_q = LastQuestionOfBranch1
        /\ update = Update(u, "answer", 1)
        /\ view[u].kind = "interstitial"
        /\ DictGet(get_current_question(user_sessions[u], questions).options, 1).next_q = 13
        /\ ~get_current_question(user_sessions[u], questions).is_final
        /\ InGraph(1, 13)

\* choice_id is an option of the current question of u, which the graph has
AnyValidAnswer(u, choice_id) ==
    /\ HasSession(u)
    /\ HasCurrentQuestion(user_sessions[u], questions)
    /\ DictHas(get_current_question(user_sessions[u], questions).options, choice_id)

\* the answer choice_id of u ends the questionnaire: no next question, a
\* final question, or question 12 of branch 1
FinishingAnswer(u, choice_id) ==
    /\ AnyValidAnswer(u, choice_id)
    /\ LET question == get_current_question(user_sessions[u], questions)
       IN \/ DictGet(question.options, choice_id).next_q = None
          \/ question.is_final
          \/ user_sessions[u].branch = 1 /\ user_sessions[u].current_q = 12

\* C7: a finishing answer on a session that has not seen the interstitial
\* shows it and sets the flag; on a session that has seen it, it goes
\* straight to the final message; the interstitial is shown only to a session
\* whose flag is not set, which sets it, and the flag is cleared only when
\* Start, StartBranch or Restart replace the session: a session sees the
\* interstitial at most once.
C7_InterstitialOnce ==
    [][\A u \in users :
          /\ \A choice_id \in ChoiceInputs :
                Answer(u, choice_id) /\ FinishingAnswer(u, choice_id) =>
                   IF user_sessions[u].seen_subscription_prompt
                   THEN /\ view'[u].kind = "final"
                        /\ u \notin DOMAIN user_sessions'
                   ELSE /\ view'[u].kind = "interstitial"
                        /\ u \in DOMAIN user_sessions'
                        /\ user_sessions'[u].seen_subscription_prompt
          /\ update'.user = u /\ view'[u].kind = "interstitial" =>
                /\ HasSession(u)
                /\ ~user_sessions[u].seen_subscription_prompt
                /\ u \in DOMAIN user_sessions'
                /\ user_sessions'[u].seen_subscription_prompt
          /\ (/\ HasSession(u)
              /\ user_sessions[u].seen_subscription_prompt
              /\ u \in DOMAIN user_sessions'
              /\ ~user_sessions'[u].seen_subscription_prompt)
                => update'.kind \in {"start", "branch", "restart"}]_vars

\* C7 witness: an answer has led straight to the final message, which only
\* a session that had seen the interstitial gets from an answer.
C7_Witness ==
    \E u \in users :
        /\ update.user = u
        /\ update.kind = "answer"
        /\ view[u].kind = "final"
        /\ ~HasSession(u)

\* the text when it is not blank, stripped, as the one entry of a list
Entry(text) == IF Strip(text) # <<>> THEN <<Strip(text)>> ELSE <<>>

\* C8: when the first answer after StartBranch picks an option without a
\* next question, no question is pushed, the interstitial is shown and the
\* session holds exactly the confirmation, portrait and advice of that
\* option; SkipInterstitial on a session then sends the final message made
\* from that session and removes it; for the second option of question 1
\* of branch 5 that is the portrait X and the one advice "B" / "y.".
C8_FirstAnswerWithoutNext ==
    [][\A u \in users :
          /\ \A choice_id \in ChoiceInputs :
                (/\ Answer(u, choice_id)
                 /\ AnyValidAnswer(u, choice_id)
                 /\ update = Update(u, "branch", user_sessions[u].branch)
                 /\ DictGet(get_current_question(user_sessions[u], questions).options,
                            choice_id).next_q = None)
                => LET option ==
                         DictGet(get_current_question(user_sessions[u], questions).options,
                                 choice_id)
                   IN /\ view'[u].kind = "interstitial"
                      /\ u \in DOMAIN user_sessions'
                      /\ user_sessions'[u] =
                            [user_sessions[u] EXCEPT
                               !.confirmations = Entry(option.confirmation),
                               !.portraits = Entry(option.portrait),
                               !.advices = Entry(option.advice),
                               !.seen_subscription_prompt = TRUE]
          /\ SkipInterstitial(u) /\ HasSession(u) =>
                /\ view'[u].kind = "final"
                /\ view'[u].result.portrait = portrait(user_sessions[u])
                /\ view'[u].result.advices = advice_lines(user_sessions[u])
                /\ u \notin DOMAIN user_sessions'
          /\ (/\ SkipInterstitial(u) /\ HasSession(u)
              /\ user_sessions[u].branch = 5
              /\ user_sessions[u].portraits = << <<"X">> >>
              /\ user_sessions[u].advices = << <<"B", " ", "\n", "y", ".">> >>)
                => /\ view'[u].result.portrait = <<"X">>
                   /\ view'[u].result.advices =
                         << [n |-> 1, split |-> TRUE, heading |-> <<"B">>,
                             body |-> <<"y", ".">>] >>]_vars

\* C8 witness: the interstitial is up after the first answer of a session of
\* branch 5, which picked the option without a next question.
C8_Witness ==
    \E u \in DOMAIN user_sessions :
        /\ update = Update(u, "answer", 2)
        /\ view[u].kind = "interstitial"
        /\ user_sessions[u].branch = 5
        /\ user_sessions[u].history = <<1>>
        /\ user_sessions[u].portraits = << <<"X">> >>
        /\ user_sessions[u].advices = << <<"B", " ", "\n", "y", ".">> >>

\* the final message of that session has been sent on SkipInterstitial
C8_FinalSent ==
    \E u \in users :
        /\ update = Update(u, "skip", None)
        /\ view[u].kind = "final"
        /\ view[u].result.portrait = <<"X">>
        /\ view[u].result.advices =
              << [n |-> 1, split |-> TRUE, heading |-> <<"B">>, body |-> <<"y", ".">>] >>

\* the session of u as the final message reads it when the update handled is
\* an answer: with the portrait and the advice of the chosen option
Answered(u, choice_id) ==
    LET option == DictGet(get_current_question(user_sessions[u], questions).options,
                          choice_id)
    IN [user_sessions[u] EXCEPT
          !.portraits = @ \o Entry(option.portrait),
          !.advices = @ \o Entry(option.advice)]

\* C9: a user who has been sent the final message has no session; the
\* message is sent only on an answer or on SkipInterstitial of a user with a
\* session, that step removes the session, and the result in the message is
\* the one of the session as it was when the step removed it.
C9_FinalRemovesSession ==
    /\ [](\A u \in users : view[u].kind = "final" => ~HasSession(u))
    /\ [][\A u \in users :
            update'.user = u /\ view'[u].kind = "final" =>
               /\ HasSession(u)
               /\ u \notin DOMAIN user_sessions'
               /\ update'.kind \in {"answer", "skip"}
               /\ LET read == IF update'.kind = "answer"
                              THEN Answered(u, update'.arg)
                              ELSE user_sessions[u]
                  IN /\ view'[u].result.portrait = portrait(read)
                     /\ view'[u].result.description = portrait_description(read, questions)
                     /\ view'[u].result.advices = advice_lines(read)]_vars

\* C9 witness: an answer has produced the final message with two advices and
\* the session is gone.
C9_Witness ==
    \E u \in users :
        /\ update = Update(u, "answer", 1)
        /\ view[u].kind = "final"
        /\ Len(view[u].result.advices) = 2
        /\ ~HasSession(u)

\* C10: an answer with a choice that the current question does not have,
\* and a step back with one entry in the history, change no session and
\* send their one-line reply.
C10_RejectedUpdatesKeepSession ==
    [][\A u \in users :
          /\ \A choice_id \in ChoiceInputs :
                (/\ Answer(u, choice_id)
                 /\ HasSession(u)
                 /\ HasCurrentQuestion(user_sessions[u], questions)
                 /\ ~DictHas(get_current_question(user_sessions[u], questions).options,
                             choice_id))
                => /\ user_sessions' = user_sessions
                   /\ view'[u] = ErrorMessage(InvalidChoice)
          /\ (Back(u) /\ HasSession(u) /\ Len(user_sessions[u].history) = 1)
                => /\ user_sessions' = user_sessions
                   /\ view'[u] = ErrorMessage(BackNotAllowed)]_vars

\* C10 witness: a step back was refused on a session that holds a portrait,
\* a confirmation not yet shown and one history entry.
C10_Witness ==
    \E u \in DOMAIN user_sessions :
        /\ update = Update(u, "back", None)
        /\ view[u] = ErrorMessage(BackNotAllowed)
        /\ Len(user_sessions[u].history) = 1
        /\ user_sessions[u].portraits # <<>>
        /\ user_sessions[u].confirmations # <<>>

\* an answer was refused on a session that holds a portrait
C10_InvalidChoiceSeen ==
    \E u \in DOMAIN user_sessions :
        /\ update = Update(u, "answer", 3)
        /\ view[u] = ErrorMessage(InvalidChoice)
        /\ user_sessions[u].portraits # <<>>

\* the session points at a question that the graph does not have
Unresolved(session) ==
    \/ session.branch = None
    \/ session.current_q = None
    \/ ~InGraph(session.branch, session.current_q)

\* the reply QuestionNotFound was sent to u and the session of u is gone
NotFoundReported(u) ==
    /\ view'[u] = ErrorMessage(QuestionNotFound)
    /\ u \notin DOMAIN user_sessions'

\* C11: StartBranch on a branch without its start question, an answer that
\* goes on to a question the graph does not have, a step back onto such a
\* question and an answer on a session whose current question cannot be
\* resolved all send QuestionNotFound and remove the session; no session in
\* a branch is ever left pointing at a question the graph does not have.
C11_UnresolvedQuestionResets ==
    /\ [](\A u \in DOMAIN user_sessions :
            InBranch(user_sessions[u]) => ~Unresolved(user_sessions[u]))
    /\ [][\A u \in users :
            /\ \A b \in BranchInputs :
                  StartBranch(u, b) /\ ~InGraph(b, IF b = 1 THEN 2 ELSE 1)
                     => NotFoundReported(u)
            /\ \A choice_id \in ChoiceInputs :
                  (/\ Answer(u, choice_id)
                   /\ AnyValidAnswer(u, choice_id)
                   /\ ~FinishingAnswer(u, choice_id)
                   /\ ~InGraph(user_sessions[u].branch,
                               DictGet(get_current_question(user_sessions[u],
                                                            questions).options,
                                       choice_id).next_q))
                     => NotFoundReported(u)
            /\ \A choice_id \in ChoiceInputs :
                  Answer(u, choice_id) /\ HasSession(u) /\ Unresolved(user_sessions[u])
                     => NotFoundReported(u)
            /\ (/\ Back(u) /\ HasSession(u)
                /\ Len(user_sessions[u].history) > 1
                /\ ~InGraph(user_sessions[u].branch,
                            user_sessions[u].history[Len(user_sessions[u].history) - 1]))
                     => NotFoundReported(u)]_vars

\* C11 witness: an answer whose next question 9 is not in branch 2 has been
\* answered with QuestionNotFound and the session is gone.
C11_Witness ==
    \E u \in users :
        /\ update = Update(u, "answer", 2)
        /\ view[u] = ErrorMessage(QuestionNotFound)
        /\ ~HasSession(u)
        /\ ~InGraph(2, 9)

\* a step back onto the missing question 1 of branch 1 has been answered
\* with QuestionNotFound
C11_BackOntoMissing ==
    \E u \in users :
        /\ update = Update(u, "back", None)
        /\ view[u] = ErrorMessage(QuestionNotFound)
        /\ ~HasSession(u)

\* StartBranch(3) has been answered with QuestionNotFound
C11_StartWithoutQuestion ==
    \E u \in users :
        /\ update = Update(u, "branch", 3)
        /\ view[u] = ErrorMessage(QuestionNotFound)
        /\ ~HasSession(u)

\* an answer on a session without a branch has been answered with
\* QuestionNotFound
C11_AnswerWithoutBranch ==
    \E u \in users :
        /\ update = Update(u, "answer", 1)
        /\ view[u] = ErrorMessage(QuestionNotFound)
        /\ ~HasSession(u)

\* C12: an answer, a step back or a skip of the subscription prompt of a user
\* without a session is answered with the session-missing failure, and the
\* user has no session afterwards.
C12_NoSessionReported ==
    [][\A u \in users :
          (/\ ~HasSession(u)
           /\ \/ \E choice_id \in ChoiceInputs : Answer(u, choice_id)
              \/ Back(u)
              \/ SkipInterstitial(u))
             => /\ view'[u] = ErrorMessage(SessionReset)
                /\ u \notin DOMAIN user_sessions']_vars

\* what the three handlers do without a session: the answer is reported as
\* a reset, the step back as a refused step back, the skip is not answered;
\* none of them creates a session
C12_NoSessionAsHandled ==
    [][\A u \in users :
          ~HasSession(u) =>
             /\ (\E choice_id \in ChoiceInputs : Answer(u, choice_id))
                   => view'[u] = ErrorMessage(SessionReset)
             /\ Back(u) => view'[u] = ErrorMessage(BackNotAllowed)
             /\ SkipInterstitial(u) => view'[u] = Message("silent")
             /\ (\/ \E choice_id \in ChoiceInputs : Answer(u, choice_id)
                 \/ Back(u)
                 \/ SkipInterstitial(u)) => u \notin DOMAIN user_sessions']_vars

\* the step sends the final message to u
FinalSent(u) == update'.user = u /\ view'[u].kind = "final"

\* C13: the final message is sent only by an answer that ends the
\* questionnaire or by a skip on a session whose subscription prompt has
\* been shown; a skip on a session whose prompt has not been shown sends no
\* final message and leaves the session in the store.
C13_FinalOnlyAtFinish ==
    [][\A u \in users :
          /\ FinalSent(u) =>
                \/ \E choice_id \in ChoiceInputs :
                      Answer(u, choice_id) /\ FinishingAnswer(u, choice_id)
                \/ /\ SkipInterstitial(u)
                   /\ HasSession(u)
                   /\ user_sessions[u].seen_subscription_prompt
          /\ (/\ SkipInterstitial(u)
              /\ HasSession(u)
              /\ ~user_sessions[u].seen_subscription_prompt)
                => /\ view'[u].kind # "final"
                   /\ user_sessions' = user_sessions]_vars

\* the first half of C13 with the skip as the code has it: the final message
\* is sent only by an answer that ends the questionnaire or by a skip on any
\* session
C13_FinalByAnswerOrSkip ==
    [][\A u \in users :
          FinalSent(u) =>
             \/ \E choice_id \in ChoiceInputs :
                   Answer(u, choice_id) /\ FinishingAnswer(u, choice_id)
             \/ SkipInterstitial(u) /\ HasSession(u)]_vars

\* how often tag occurs in tags, and the place of its first occurrence
Occurrences(tags, tag) == Cardinality({i \in 1..Len(tags) : tags[i] = tag})
FirstOccurrence(tags, tag) ==
    CHOOSE i \in 1..Len(tags) :
        tags[i] = tag /\ \A j \in 1..(i - 1) : tags[j] # tag

\* tag is the tag of tags with the highest count and, of those with that
\* count, the one that occurs first
Dominant(tags, tag) ==
    /\ \E i \in 1..Len(tags) : tags[i] = tag
    /\ \A i \in 1..Len(tags) :
          \/ Occurrences(tags, tags[i]) < Occurrences(tags, tag)
          \/ /\ Occurrences(tags, tags[i]) = Occurrences(tags, tag)
             /\ FirstOccurrence(tags, tag) <= FirstOccurrence(tags, tags[i])

\* the portrait the claim gives to a session
PortraitAsClaimed(session, tag) ==
    IF session.portraits = <<>> THEN tag = UniversalWorker
    ELSE Dominant(session.portraits, tag)

\* C14: the portrait of the final message is the tag with the highest count,
\* of several with that count the one that occurred first, and the fallback
\* label for a session without tags; the tags X, Y, X, Y and Y, X, X both
\* give X.
C14_DominantPortrait ==
    /\ [](\A u \in DOMAIN user_sessions :
            /\ view[u].kind = "final"
                  => PortraitAsClaimed(user_sessions[u], view[u].result.portrait)
            /\ user_sessions[u].portraits \in {<<PX, PY, PX, PY>>, <<PY, PX, PX>>}
                  => portrait(user_sessions[u]) = PX)
    /\ [][\A u \in users :
            SkipInterstitial(u) /\ HasSession(u)
               => PortraitAsClaimed(user_sessions[u], view'[u].result.portrait)]_vars

\* C14 witness: the result of a session with the tags X, Y, X, Y, two of
\* each, has been computed and its portrait is X.
C14_Witness ==
    \E u \in DOMAIN user_sessions :
        /\ user_sessions[u].portraits = <<PX, PY, PX, PY>>
        /\ view[u].kind = "final"
        /\ view[u].result.portrait = PX

\* the result of a session with the tags Y, X, X has been computed
C14_MostFrequentSecond ==
    \E u \in DOMAIN user_sessions :
        /\ user_sessions[u].portraits = <<PY, PX, PX>>
        /\ view[u].kind = "final"
        /\ view[u].result.portrait = PX

\* the result of a session without tags has been computed
C14_NoTags ==
    \E u \in DOMAIN user_sessions :
        /\ user_sessions[u].portraits = <<>>
        /\ view[u].kind = "final"
        /\ view[u].result.portrait = UniversalWorker

\* the elements of seq without their later repetitions, in the order of
\* their first occurrences
FirstOccurrences(seq) ==
    LET firsts == {i \in 1..Len(seq) : \A j \in 1..(i - 1) : seq[j] # seq[i]}
        place(k) == CHOOSE i \in firsts :
                       Cardinality({j \in firsts : j <= i}) = k
    IN [k \in 1..Cardinality(firsts) |-> seq[place(k)]]

\* the advices that the lines of a final message show, in their order
AdvicesShown(session, lines) ==
    /\ Len(lines) = Len(FirstOccurrences(session.advices))
    /\ \A k \in 1..Len(lines) :
          lines[k] = AdviceLine(k - 1, FirstOccurrences(session.advices)[k])

\* C15: the advice lines of the final message are the advices of the
\* session without their repetitions, each at the place of its first
\* occurrence: the advices A.x, B.y, A.x give the lines of A.x and B.y.
C15_AdvicesDeduplicated ==
    /\ [](\A u \in DOMAIN user_sessions :
            view[u].kind = "final"
               => AdvicesShown(user_sessions[u], view[u].result.advices))
    /\ [][\A u \in users :
            SkipInterstitial(u) /\ HasSession(u)
               => AdvicesShown(user_sessions[u], view'[u].result.advices)]_vars

\* C15 witness: the result of a session with the advices A, B, A has been
\* computed and shows the line of A, then the line of B.
C15_Witness ==
    \E u \in DOMAIN user_sessions :
        /\ user_sessions[u].advices = <<AdvA, AdvB, AdvA>>
        /\ view[u].kind = "final"
        /\ view[u].result.advices = <<AdviceLine(0, AdvA), AdviceLine(1, AdvB)>>

\* the store with the session of u alone
Alone(sessions, u) == [v \in DOMAIN sessions \cap {u} |-> sessions[v]]

\* the step leaves every user but u as they were: session, or none, and
\* the last message sent
OthersUntouched(u) ==
    \A v \in users \ {u} :
        /\ v \in DOMAIN user_sessions' <=> v \in DOMAIN user_sessions
        /\ v \in DOMAIN user_sessions => user_sessions'[v] = user_sessions[v]
        /\ view'[v] = view[v]

\* the step does for u what the handler does on a store that holds the
\* session of u alone
AsAlone(u, effect) ==
    /\ view'[u] = effect.out
    /\ Alone(user_sessions', u) = effect.sessions

\* C16: an update of one user leaves the session of every other user, or
\* its absence, and the messages sent to them as they were, and its result
\* for the user is that of the same update in a store that holds this
\* user's session alone.
C16_UsersIsolated ==
    [][\A u \in users :
          /\ Start(u) => OthersUntouched(u)
                         /\ AsAlone(u, start(Alone(user_sessions, u), u))
          /\ Restart(u) => OthersUntouched(u)
                           /\ AsAlone(u, handle_restart(Alone(user_sessions, u), u))
          /\ Back(u) => OthersUntouched(u)
                        /\ AsAlone(u, handle_back(Alone(user_sessions, u), u))
          /\ SkipInterstitial(u)
                => OthersUntouched(u)
                   /\ AsAlone(u, skip_subscription(Alone(user_sessions, u), u))
          /\ \A branch \in BranchInputs :
                StartBranch(u, branch)
                   => OthersUntouched(u)
                      /\ AsAlone(u, handle_branch(Alone(user_sessions, u), u, branch))
          /\ \A choice_id \in ChoiceInputs :
                Answer(u, choice_id)
                   => OthersUntouched(u)
                      /\ AsAlone(u, handle_answer(Alone(user_sessions, u), u,
                                                  choice_id))]_vars

\* C16 witness: u1 has lost the session to QuestionNotFound while u2, two
\* questions into branch 5, still has the session and the question shown.
C16_Witness ==
    /\ users = Users
    /\ update.user = "u1"
    /\ view["u1"] = ErrorMessage(QuestionNotFound)
    /\ ~HasSession("u1")
    /\ HasSession("u2")
    /\ user_sessions["u2"].history = <<1, 2>>
    /\ view["u2"].kind = "question"

\* both users have received their final message, with different portraits
C16_TwoResults ==
    /\ users = Users
    /\ view["u1"].kind = "final"
    /\ view["u2"].kind = "final"
    /\ view["u1"].result.portrait # view["u2"].result.portrait

\* the option that the answer choice_id of u chooses
ChosenOption(u, choice_id) ==
    DictGet(get_current_question(user_sessions[u], questions).options, choice_id)

\* the step has moved the session of u on to next_q
MovedTo(u, next_q) ==
    /\ u \in DOMAIN user_sessions'
    /\ user_sessions'[u].current_q = next_q
    /\ user_sessions'[u].history = Append(user_sessions[u].history, next_q)
    /\ user_sessions'[u].branch = user_sessions[u].branch

\* the step has ended the questionnaire of u
Finished(u) == view'[u].kind \in {"interstitial", "final"}

\* C17: a valid answer ends the questionnaire exactly if its option has no
\* next question, the question is final or it is question 12 of branch 1;
\* every other valid answer makes the next question of its option the
\* current one and appends it to the history.
C17_FinishOrContinue ==
    [][\A u \in users : \A choice_id \in ChoiceInputs :
          Answer(u, choice_id) /\ AnyValidAnswer(u, choice_id)
             => /\ Finished(u) <=> FinishingAnswer(u, choice_id)
                /\ ~FinishingAnswer(u, choice_id)
                      => MovedTo(u, ChosenOption(u, choice_id).next_q)]_vars

\* C17 as the code has it: the answer that does not end the questionnaire
\* moves on when the graph has the next question of its option, and is
\* answered with QuestionNotFound, the session removed, when it has not.
C17_FinishOrContinueInGraph ==
    [][\A u \in users : \A choice_id \in ChoiceInputs :
          Answer(u, choice_id) /\ AnyValidAnswer(u, choice_id)
             => /\ Finished(u) <=> FinishingAnswer(u, choice_id)
                /\ ~FinishingAnswer(u, choice_id)
                      => IF InGraph(user_sessions[u].branch,
                                    ChosenOption(u, choice_id).next_q)
                         THEN /\ MovedTo(u, ChosenOption(u, choice_id).next_q)
                              /\ view'[u].kind = "question"
                              /\ view'[u].q = ChosenOption(u, choice_id).next_q
                         ELSE NotFoundReported(u)]_vars

\* C17 witness: the second answer in branch 2 has moved the session from
\* question 2 to question 3 and the history is 1, 2, 3.
C17_Witness ==
    \E u \in users :
        /\ update = Update(u, "answer", 1)
        /\ HasSession(u)
        /\ user_sessions[u].branch = 2
        /\ user_sessions[u].current_q = 3
        /\ user_sessions[u].history = <<1, 2, 3>>
        /\ view[u].kind = "question"

\* later begins with earlier
Extends(later, earlier) ==
    /\ Len(later) >= Len(earlier)
    /\ SubSeq(later, 1, Len(earlier)) = earlier

\* the step is an update of u that makes a new session: /start, a branch
\* button, the restart button
NewSessionFor(u) ==
    /\ update'.user = u
    /\ update'.kind \in {"start", "branch", "restart"}

\* C18: while a session is neither replaced nor removed its advices and
\* its portrait tags only grow at the end: a valid answer appends the tag
\* and the advice of its option, each unless it is blank and also when the
\* session has it already; a step back, a rejected answer and the
\* subscription prompt change neither list.
C18_AppendOnly ==
    [][\A u \in users :
          (HasSession(u) /\ u \in DOMAIN user_sessions' /\ ~NewSessionFor(u))
             => /\ Extends(user_sessions'[u].portraits, user_sessions[u].portraits)
                /\ Extends(user_sessions'[u].advices, user_sessions[u].advices)
                /\ \A choice_id \in ChoiceInputs :
                      Answer(u, choice_id) =>
                         IF AnyValidAnswer(u, choice_id)
                         THEN /\ user_sessions'[u].portraits
                                    = Answered(u, choice_id).portraits
                              /\ user_sessions'[u].advices
                                    = Answered(u, choice_id).advices
                         ELSE /\ user_sessions'[u].portraits = user_sessions[u].portraits
                              /\ user_sessions'[u].advices = user_sessions[u].advices
                /\ Back(u)
                      => /\ user_sessions'[u].portraits = user_sessions[u].portraits
                         /\ user_sessions'[u].advices = user_sessions[u].advices]_vars

\* C18 witness: the four answers of branch 2 have left the tags X, Y, Y and
\* the advices A, B, A, the advice A twice, and the subscription prompt is
\* shown.
C18_Witness ==
    \E u \in users :
        /\ update = Update(u, "answer", 1)
        /\ view[u].kind = "interstitial"
        /\ HasSession(u)
        /\ user_sessions[u].portraits = <<PX, PY, PY>>
        /\ user_sessions[u].advices = <<AdvA, AdvB, AdvA>>

\* a step back has left a session with a tag and an advice
C18_BackKeepsLists ==
    \E u \in users :
        /\ update = Update(u, "back", None)
        /\ view[u].kind = "question"
        /\ HasSession(u)
        /\ user_sessions[u].portraits # <<>>
        /\ user_sessions[u].advices # <<>>

\* the session of a user who had none and pressed the button of branch b
FromIdle(u, b) == handle_branch(<<>>, u, b).sessions[u]

\* C19: whatever the user's state before, the session after a StartBranch(b)
\* that leaves one has branch b at its start position, no confirmations,
\* advices or portrait tags and the subscription prompt not shown: it is
\* the session of a user who had none before.
C19_StartBranchResets ==
    [][\A u \in users : \A b \in BranchInputs :
          StartBranch(u, b) /\ u \in DOMAIN user_sessions'
             => /\ user_sessions'[u].branch = b
                /\ user_sessions'[u].current_q = IF b = 1 THEN 2 ELSE 1
                /\ user_sessions'[u].confirmations = <<>>
                /\ user_sessions'[u].advices = <<>>
                /\ user_sessions'[u].portraits = <<>>
                /\ ~user_sessions'[u].seen_subscription_prompt
                /\ user_sessions'[u] = FromIdle(u, b)]_vars

\* C19 witness: the button of branch 5 has been answered with question 1
\* and the session is the one of a user who had none.
C19_Witness ==
    \E u \in users :
        /\ update = Update(u, "branch", 5)
        /\ view[u].kind = "question"
        /\ HasSession(u)
        /\ user_sessions[u] = FromIdle(u, 5)
        /\ user_sessions[u].advices = <<>>
        /\ ~user_sessions[u].seen_subscription_prompt

\* no StartBranch finds a session with advices, portrait tags and the
\* subscription prompt shown (does not hold: such a StartBranch happens)
C19_OnlyFromFreshSessions ==
    [][\A u \in users : \A b \in BranchInputs :
          StartBranch(u, b) /\ HasSession(u) /\ u \in DOMAIN user_sessions'
             => ~(/\ user_sessions[u].seen_subscription_prompt
                  /\ user_sessions[u].advices # <<>>
                  /\ user_sessions[u].portraits # <<>>)]_vars

\* the step sends a question to u
Rendered(u) == update'.user = u /\ view'[u].kind = "question"

\* the confirmations of u that wait for the next question
Waiting(u) == IF HasSession(u) THEN user_sessions[u].confirmations ELSE <<>>

\* C20: a question sent with confirmations waiting shows them before its
\* text and leaves none; what it shows are the confirmations of the valid
\* answers given since the last question was sent, those of the answer
\* that leads to it last, so no confirmation is shown with a later
\* question; an answer that is followed by no question keeps its
\* confirmation for the next one, and no other update changes the list.
C20_ConfirmationsShownOnce ==
    /\ [](\A u \in DOMAIN user_sessions :
            update.user = u /\ view[u].kind = "question"
               => user_sessions[u].confirmations = <<>>)
    /\ [][\A u \in users :
            /\ Rendered(u) =>
                  /\ u \in DOMAIN user_sessions'
                  /\ user_sessions'[u].confirmations = <<>>
                  /\ \A b \in BranchInputs :
                        StartBranch(u, b) => view'[u].prefix = <<>>
                  /\ Back(u) => view'[u].prefix = Waiting(u)
                  /\ \A choice_id \in ChoiceInputs :
                        Answer(u, choice_id) =>
                           view'[u].prefix =
                              Waiting(u) \o Entry(ChosenOption(u, choice_id).confirmation)
            /\ (HasSession(u) /\ u \in DOMAIN user_sessions'
                /\ ~Rendered(u) /\ ~NewSessionFor(u))
                  => IF \E choice_id \in ChoiceInputs :
                           Answer(u, choice_id) /\ AnyValidAnswer(u, choice_id)
                     THEN \A choice_id \in ChoiceInputs :
                             Answer(u, choice_id) =>
                                user_sessions'[u].confirmations =
                                   Waiting(u)
                                   \o Entry(ChosenOption(u, choice_id).confirmation)
                     ELSE user_sessions'[u].confirmations = Waiting(u)]_vars

\* C20 witness: the answer to question 2 of branch 1 has been followed by
\* question 12 with the confirmation "ok" before its text, and the list is
\* empty.
C20_Witness ==
    \E u \in users :
        /\ update = Update(u, "answer", 1)
        /\ view[u].kind = "question"
        /\ view[u].branch = 1
        /\ view[u].q = LastQuestionOfBranch1
        /\ view[u].prefix = <<Ok>>
        /\ HasSession(u)
        /\ user_sessions[u].confirmations = <<>>

\* a step back from the subscription prompt has shown question 2 of branch
\* 1 with the confirmation of the answer before the prompt
C20_ShownAfterBack ==
    \E u \in users :
        /\ update = Update(u, "back", None)
        /\ view[u].kind = "question"
        /\ view[u].prefix = <<Strip(Fine)>>
        /\ user_sessions[u].confirmations = <<>>

\* the option c of question q of branch b
OptionAt(b, q, c) == DictGet(DictGet(DictGet(questions, b), q).options, c)

\* the places <<branch, question, choice>> of the options whose portrait
\* is that of the session but for the case, and whose description is not
\* blank
Described(session) ==
    {place \in UNION {UNION {{<<b, q, c>> :
                                c \in DictKeys(DictGet(DictGet(questions, b), q).options)} :
                             q \in DictKeys(DictGet(questions, b))} :
                      b \in DictKeys(questions)} :
        /\ Lower(OptionAt(place[1], place[2], place[3]).portrait)
              = Lower(portrait(session))
        /\ Strip(OptionAt(place[1], place[2], place[3]).description) # <<>>}

\* branch, then question, then choice, ascending
Before(p1, p2) ==
    \/ p1[1] < p2[1]
    \/ p1[1] = p2[1] /\ p1[2] < p2[2]
    \/ p1[1] = p2[1] /\ p1[2] = p2[2] /\ p1[3] <= p2[3]

\* the description the claim gives to the final message of a session
DescriptionAsClaimed(session) ==
    IF Described(session) = {} THEN GenericDescription(portrait(session))
    ELSE LET first == CHOOSE p1 \in Described(session) :
                         \A p2 \in Described(session) : Before(p1, p2)
         IN Strip(OptionAt(first[1], first[2], first[3]).description)

\* C21: the description in the final message is that of the first option,
\* by branch, then question, then choice, ascending, whose portrait is the
\* session's but for the case and whose description is not blank, whatever
\* the order of the rows of the file.
C21_DescriptionInAscendingOrder ==
    [][\A u \in users :
          /\ SkipInterstitial(u) /\ HasSession(u)
                => view'[u].result.description
                      = DescriptionAsClaimed(user_sessions[u])
          /\ \A choice_id \in ChoiceInputs :
                (/\ Answer(u, choice_id)
                 /\ AnyValidAnswer(u, choice_id)
                 /\ FinalSent(u))
                   => view'[u].result.description
                         = DescriptionAsClaimed(Answered(u, choice_id))]_vars

\* the final message of a session with the portrait "x" has the description
\* of branch 5, which the file has before branch 2
C21_DescriptionOfLaterBranch ==
    \E u \in users :
        /\ view[u].kind = "final"
        /\ view[u].result.portrait = Lx
        /\ view[u].result.description = Strip(DescOf5)
        /\ DictHas(questions, 2)

\* the 0-based places of the periods and the newlines of a text
SplitPlaces(text) == {i \in 0..(Len(text) - 1) : text[i + 1] \in {".", "\n"}}

\* the line the claim gives to an advice: split at the first period or
\* newline, wherever it is, the period kept with the heading
LineAsClaimed(i, advice) ==
    LET formatted_advice == Remove(advice, "*")
        places == SplitPlaces(formatted_advice)
        at == CHOOSE p \in places : \A other \in places : p <= other
        name == Strip(SubSeq(formatted_advice, 1, at))
    IN IF places = {}
       THEN [n |-> i + 1, split |-> FALSE, heading |-> formatted_advice,
             body |-> <<>>]
       ELSE [n |-> i + 1, split |-> TRUE,
             heading |-> IF formatted_advice[at + 1] = "."
                         THEN Append(name, ".") ELSE name,
             body |-> Strip(SubSeq(formatted_advice, at + 2,
                                   Len(formatted_advice)))]

\* the advice lines the claim gives to the final message of a session
LinesAsClaimed(session) ==
    [k \in 1..Len(FirstOccurrences(session.advices)) |->
        LineAsClaimed(k - 1, FirstOccurrences(session.advices)[k])]

\* C22: every advice of the final message, its asterisks removed, is split
\* into heading and body at its first period or newline, whichever comes
\* first and also when it is the first character; a period stays with the
\* heading; an advice with neither is a heading without body.
C22_SplitAtFirstPeriodOrNewline ==
    [][\A u \in users :
          /\ SkipInterstitial(u) /\ HasSession(u)
                => view'[u].result.advices = LinesAsClaimed(user_sessions[u])
          /\ \A choice_id \in ChoiceInputs :
                (/\ Answer(u, choice_id)
                 /\ AnyValidAnswer(u, choice_id)
                 /\ FinalSent(u))
                   => view'[u].result.advices
                         = LinesAsClaimed(Answered(u, choice_id))]_vars

\* no advice of the session begins, its asterisks removed, with a period
\* or a newline
SplitsPastStart(session) ==
    \A k \in 1..Len(session.advices) :
        0 \notin SplitPlaces(Remove(session.advices[k], "*"))

\* C22 for the sessions without an advice that begins with a period or a
\* newline: the lines are as claimed
C22_SplitPastStart ==
    [][\A u \in users :
          /\ (SkipInterstitial(u) /\ HasSession(u)
              /\ SplitsPastStart(user_sessions[u]))
                => view'[u].result.advices = LinesAsClaimed(user_sessions[u])
          /\ \A choice_id \in ChoiceInputs :
                (/\ Answer(u, choice_id)
                 /\ AnyValidAnswer(u, choice_id)
                 /\ FinalSent(u)
                 /\ SplitsPastStart(Answered(u, choice_id)))
                   => view'[u].result.advices
                         = LinesAsClaimed(Answered(u, choice_id))]_vars

\* the final message has the advice ".c" as one line without a body
C22_PeriodAtStartNotSplit ==
    \E u \in users :
        /\ view[u].kind = "final"
        /\ \E k \in 1..Len(view[u].result.advices) :
              view[u].result.advices[k] =
                 [n |-> k, split |-> FALSE, heading |-> AdvC, body |-> <<>>]

\* the subscription prompt is the last message sent to u and u has not
\* answered it
PromptPending(u) ==
    /\ HasSession(u)
    /\ view[u].kind = "interstitial"
    /\ update.user = u

\* C23: an answer that ends the questionnaire and leaves the session, the
\* subscription prompt shown, leaves branch, current question and history
\* as they were; a step back from the pending prompt goes to the question
\* before the one answered last when the graph has it.
C23_FinishingAnswerStays ==
    [][\A u \in users :
          /\ \A choice_id \in ChoiceInputs :
                (/\ Answer(u, choice_id)
                 /\ FinishingAnswer(u, choice_id)
                 /\ u \in DOMAIN user_sessions')
                   => /\ view'[u].kind = "interstitial"
                      /\ user_sessions'[u].branch = user_sessions[u].branch
                      /\ user_sessions'[u].current_q = user_sessions[u].current_q
                      /\ user_sessions'[u].history = user_sessions[u].history
          /\ (/\ Back(u)
              /\ PromptPending(u)
              /\ Len(user_sessions[u].history) > 1
              /\ InGraph(user_sessions[u].branch,
                         user_sessions[u].history[Len(user_sessions[u].history) - 1]))
                => /\ u \in DOMAIN user_sessions'
                   /\ user_sessions'[u].current_q =
                         user_sessions[u].history[Len(user_sessions[u].history) - 1]
                   /\ user_sessions'[u].history =
                         SubSeq(user_sessions[u].history, 1,
                                Len(user_sessions[u].history) - 1)
                   /\ view'[u].kind = "question"
                   /\ view'[u].q = user_sessions'[u].current_q]_vars

\* C23 witness: the answer to question 12 of branch 1, whose option names
\* question 13, has shown the subscription prompt and the session is still
\* at question 12 with the history 1, 2, 12.
C23_Witness ==
    \E u \in users :
        /\ update = Update(u, "answer", 1)
        /\ view[u].kind = "interstitial"
        /\ HasSession(u)
        /\ user_sessions[u].branch = 1
        /\ user_sessions[u].current_q = LastQuestionOfBranch1
        /\ user_sessions[u].history = <<1, 2, LastQuestionOfBranch1>>

\* a step back from the pending prompt of question 12 of branch 1 has shown
\* question 2
C23_BackFromPrompt ==
    \E u \in users :
        /\ update = Update(u, "back", None)
        /\ view[u].kind = "question"
        /\ view[u].q = 2
        /\ HasSession(u)
        /\ user_sessions[u].seen_subscription_prompt
        /\ user_sessions[u].history = <<1, 2>>

\* the session has no branch, no current question, an empty history and
\* nothing recorded
Fresh(session) ==
    /\ session.branch = None
    /\ session.current_q = None
    /\ session.history = <<>>
    /\ session.advices = <<>>
    /\ session.portraits = <<>>
    /\ session.confirmations = <<>>
    /\ ~session.seen_subscription_prompt

\* C24: Start and Restart leave a session without branch, current question
\* and history, and a session without a branch is always such a session;
\* on it a step back is refused and changes nothing, and an answer is
\* answered with QuestionNotFound and removes the session.
C24_FreshSession ==
    /\ [](\A u \in DOMAIN user_sessions :
            user_sessions[u].branch = None => Fresh(user_sessions[u]))
    /\ [][\A u \in users :
            /\ (Start(u) \/ Restart(u))
                  => /\ u \in DOMAIN user_sessions'
                     /\ Fresh(user_sessions'[u])
                     /\ view'[u].kind = "start"
            /\ (HasSession(u) /\ Fresh(user_sessions[u])) =>
                  /\ Back(u) => /\ view'[u] = ErrorMessage(BackNotAllowed)
                                /\ user_sessions' = user_sessions
                  /\ \A choice_id \in ChoiceInputs :
                        Answer(u, choice_id)
                           => NotFoundReported(u)]_vars

\* C24 witness: the answer 3, which no question offers, has been answered
\* with QuestionNotFound, as on a session without a branch, and the session
\* is gone.
C24_Witness ==
    \E u \in users :
        /\ update = Update(u, "answer", 3)
        /\ view[u] = ErrorMessage(QuestionNotFound)
        /\ ~HasSession(u)

\* a step back on a session without a branch has been refused
C24_BackRefused ==
    \E u \in users :
        /\ update = Update(u, "back", None)
        /\ view[u] = ErrorMessage(BackNotAllowed)
        /\ HasSession(u)
        /\ Fresh(user_sessions[u])

\* C25: seen_subscription_prompt, once set, stays set in a session through
\* steps back, answers and rejected updates, until Start, StartBranch or
\* Restart replace the session or it is removed; an answer that ends the
\* questionnaire of a session with the flag set, as after a step back from
\* the pending prompt, is followed by the final message at once.
C25_PromptShownStays ==
    [][\A u \in users :
          (HasSession(u) /\ user_sessions[u].seen_subscription_prompt) =>
             /\ (u \in DOMAIN user_sessions' /\ ~NewSessionFor(u))
                   => user_sessions'[u].seen_subscription_prompt
             /\ \A choice_id \in ChoiceInputs :
                   Answer(u, choice_id) /\ FinishingAnswer(u, choice_id)
                      => /\ view'[u].kind = "final"
                         /\ u \notin DOMAIN user_sessions']_vars

\* C25 witness: a session of branch 5 that has seen the prompt has given
\* the answer that goes on to question 2, and the flag is still set.
C25_Witness ==
    \E u \in users :
        /\ update = Update(u, "answer", 1)
        /\ view[u].kind = "question"
        /\ view[u].branch = 5
        /\ view[u].q = 2
        /\ HasSession(u)
        /\ user_sessions[u].seen_subscription_prompt

\* a step back has left a session with the flag set
C25_SetAfterBack ==
    \E u \in users :
        /\ update = Update(u, "back", None)
        /\ view[u].kind = "question"
        /\ HasSession(u)
        /\ user_sessions[u].seen_subscription_prompt
        /\ user_sessions[u].branch = 5

====
